---- MODULE Spec2Model ----
(***************************************************************************)
(* A model of mdetsims: the power-spectrum PSF realization                 *)
(* (src/mdetsims/ps_psf.py, class PowerSpectrumPSF) and the simulation     *)
(* driver that stacks realizations (src/mdetsims/sim_utils.py, class Sim). *)
(*                                                                         *)
(* Units.  Pixel positions are carried doubled (x stands for 2*x of the    *)
(* code) so that the half-integer image center (im_width - 1)/2 is the     *)
(* integer im_width - 1.  The pixel scale is carried as a numerator over   *)
(* ScaleDen (scale stands for scale*ScaleDen of the code).  FWHM           *)
(* coefficients are carried in units of 1e-4 arcsec.  Every quotient the   *)
(* code computes in floating point is kept as an exact numerator and       *)
(* denominator.                                                            *)
(***************************************************************************)
EXTENDS Integers, Sequences, FiniteSets, TLC

\* ------------------------------------------------------------------ bounds
\* The pixel scale is scale/ScaleDen arcsec per pixel.
ScaleDen == 4
\* Image widths drawn for a standalone realization: MinWidth..MaxWidth and dim225.
MaxWidth == 3
\* Query coordinates are kept within MaxOff half-pixels of an image edge, or central.
MaxOff == 1
\* RNG seeds drawn: 0..MaxSeed.
MaxSeed == 1
\* n_coadd is drawn from 1..MaxCoadd and n_coadd_psf from None and 0..MaxCoadd.
MaxCoadd == 2
\* The PSF file names offered to a real_psf Sim: 1..MaxFiles.
MaxFiles == 2
\* The number of objects of a Sim, nobj: 0..MaxObj.
MaxObj == 1
\* The image dimension of a Sim, dim.
SimDim == 2

\* ------------------------------------------------------- program constants
\* ng = 64 grid points per side.
ng == 64
\* ls = 0.001, in units of 1e-4.
ls == 10
\* The default image dimension of a Sim, dim=225.
dim225 == 225

Abs(n) == IF n < 0 THEN -n ELSE n
Max(a, b) == IF a >= b THEN a ELSE b

\* ---------------------------------------------------------------- the RNG
\* np.random.RandomState: a deterministic stream; a state is one of 16 values
\* and every draw steps the state once and reads its output off the new state.
RngNext(s) == (5 * s + 3) % 16
\* rng.randint(low, high): an integer in [low, high).
RandInt(s, low, high) == low + (s % (high - low))
\* rng.normal(): a standard normal deviate, here one of -2..2.
Normal(s) == (s % 5) - 2

\* The RNG state after k draws from state s.
RECURSIVE RngAfter(_, _)
RngAfter(s, k) == IF k = 0 THEN s ELSE RngAfter(RngNext(s), k - 1)

\* np.exp(n * ls + lm) for lm, ls = _getlogmnsigma(0.9, 0.1), to 1e-4.
ExpCentral(n) ==
    CASE n = -2 -> 7167
      [] n = -1 -> 8007
      [] n = 0 -> 8945
      [] n = 1 -> 9993
      [] n = 2 -> 11163

\* lm = 0.02 / 5 * 10 / trunc, in units of 1e-4 (trunc # 0).
FwhmLm(trunc) == 400 \div trunc

NoObj == [kind |-> "none"]

\* ----------------------------------------------------- PowerSpectrumPSF
\* The realization built by __init__ from the draws r1..r7 of its RNG.
PSFObject(im_width, scale, trunc, r1, r2, r3, r4, r5, r6, r7) ==
    [kind |-> "ps",
     \* _x_scale = 2.0 / im_width / scale = 2 * ScaleDen / x_scale_den
     x_scale_den |-> im_width * scale,
     \* _im_cen = (im_width - 1)/2, doubled
     im_cen |-> im_width - 1,
     scale |-> scale,
     \* gs = max(im_width * scale / ng, 1) = gs_num / (ScaleDen * ng)
     gs_num |-> Max(im_width * scale, ScaleDen * ng),
     seed |-> RandInt(r1, 1, 2^30),
     fwhm_central |-> ExpCentral(Normal(r2)),
     fwhm_x |-> Normal(r3) * ls + FwhmLm(trunc),
     fwhm_y |-> Normal(r4) * ls + FwhmLm(trunc),
     fwhm_xx |-> Normal(r5) * ls + FwhmLm(trunc) \div 10,
     fwhm_xy |-> Normal(r6) * ls + FwhmLm(trunc) \div 10,
     fwhm_yy |-> Normal(r7) * ls + FwhmLm(trunc) \div 10]

\* A construction whose draws for fwhm_x and fwhm_y are taken in the other order.
PSFInitSwapped(rng, im_width, scale, trunc) ==
    LET r1 == RngNext(rng)
        r2 == RngNext(r1)
        r3 == RngNext(r2)
        r4 == RngNext(r3)
        r5 == RngNext(r4)
        r6 == RngNext(r5)
        r7 == RngNext(r6)
    IN  IF im_width = 0 \/ scale = 0
        THEN [exc |-> "ZeroDivisionError", obj |-> NoObj, rng |-> rng]
        ELSE IF trunc = 0
        THEN [exc |-> "ZeroDivisionError", obj |-> NoObj, rng |-> r2]
        ELSE [exc |-> "none",
              obj |-> PSFObject(im_width, scale, trunc, r1, r2, r4, r3, r5, r6, r7),
              rng |-> r7]

\* PowerSpectrumPSF.__init__(rng, im_width, scale, trunc): the exception raised,
\* the object built and the state the caller's RNG is left in.
PSFInit(rng, im_width, scale, trunc) ==
    LET r1 == RngNext(rng)
        r2 == RngNext(r1)
        r3 == RngNext(r2)
        r4 == RngNext(r3)
        r5 == RngNext(r4)
        r6 == RngNext(r5)
        r7 == RngNext(r6)
    IN  \* line 8: 2.0 / im_width / scale
        IF im_width = 0 \/ scale = 0
        THEN [exc |-> "ZeroDivisionError", obj |-> NoObj, rng |-> rng]
        \* line 38: 0.02 / 5 * 10 / trunc, after the seed and the central draw
        ELSE IF trunc = 0
        THEN [exc |-> "ZeroDivisionError", obj |-> NoObj, rng |-> r2]
        ELSE [exc |-> "none",
              obj |-> PSFObject(im_width, scale, trunc, r1, r2, r3, r4, r5, r6, r7),
              rng |-> r7]

\* xs = (x - 1 - self._im_cen), doubled.
AtmOffset(p, x) == x - 2 - p.im_cen

\* xs *= self._x_scale: the rescaled coordinate, as the numerator over
\* x_scale_den (xs/2 * 2 * ScaleDen / x_scale_den).
AtmScaled(p, x) == AtmOffset(p, x) * ScaleDen

\* fwhm of _get_atm less its constant term self._fwhm_central, as the numerator
\* over x_scale_den^2.
AtmFwhmNum(p, x, y) ==
    LET D == p.x_scale_den
        xs == AtmScaled(p, x)
        ys == AtmScaled(p, y)
    IN  (xs * p.fwhm_x + ys * p.fwhm_y) * D
        + xs * xs * p.fwhm_xx
        + xs * ys * p.fwhm_xy
        + ys * ys * p.fwhm_yy

\* PowerSpectrumPSF._get_atm(x, y): the Moffat profile of
\* fwhm = fwhm_central + fwhm_num / fwhm_den, lensed by the shear and
\* magnification the field (of this seed and grid) gives at (xs, ys).
GetAtm(p, x, y) ==
    [kind |-> "Moffat",
     fwhm_central |-> p.fwhm_central,
     fwhm_num |-> AtmFwhmNum(p, x, y),
     fwhm_den |-> p.x_scale_den * p.x_scale_den,
     lens |-> <<p.seed, p.gs_num, AtmOffset(p, x), AtmOffset(p, y)>>]

\* PowerSpectrumPSF.getPSF(pos) that draws its central FWHM afresh on every call.
GetPSFRedraw(p, rng, x, y) ==
    LET r == RngNext(rng)
        q == [p EXCEPT !.fwhm_central = ExpCentral(Normal(r))]
    IN  [psf |-> GetAtm(q, x, y), obj |-> q, rng |-> r]

\* PowerSpectrumPSF.getPSF(pos) = self._get_atm(pos.x, pos.y): the profile
\* returned, and the object and its RNG as the call leaves them.
GetPSF(p, rng, x, y) ==
    [psf |-> GetAtm(p, x, y), obj |-> p, rng |-> rng]

\* ------------------------------------------------------------------- Sim
\* An optional argument: None, or a value.
None == [isNone |-> TRUE]
Some(v) == [isNone |-> FALSE, v |-> v]

\* Keyword arguments: the names passed and their values.
NoKws == [keys |-> {}]
TruncKws(t) == [keys |-> {"trunc"}, trunc |-> t]
FileKws(n) == [keys |-> {"filenames"}, filenames |-> [i \in 1..n |-> i]]

\* self.n_coadd_psf = n_coadd_psf or n_coadd: None and 0 are both falsy.
NCoaddPsf(n_coadd_psf, n_coadd) ==
    IF n_coadd_psf.isNone \/ n_coadd_psf.v = 0 THEN n_coadd ELSE n_coadd_psf.v

\* Sim.__init__: the attributes set.
SimObject(a) ==
    [made |-> TRUE,
     gal_type |-> a.gal_type,
     psf_type |-> a.psf_type,
     n_coadd |-> a.n_coadd,
     dim |-> a.dim,
     \* self.im_cen = (dim - 1) / 2, doubled
     im_cen |-> a.dim - 1,
     psf_kws |-> a.psf_kws,
     n_coadd_psf |-> NCoaddPsf(a.n_coadd_psf, a.n_coadd),
     pixelscale |-> a.scale,
     nobj |-> a.nobj]

\* The names PowerSpectrumPSF.__init__ takes, all by keyword here; trunc has a default.
PSFParams == {"rng", "im_width", "scale", "trunc"}
\* The names _stack_ps_psfs passes itself: rng=, im_width=, buff=75, scale=.
PSFPassed == {"rng", "im_width", "buff", "scale"}

\* Whether the call PowerSpectrumPSF(rng=.., im_width=.., buff=75, scale=.., **kwargs)
\* raises TypeError: a name given twice, or a name __init__ does not take.
PSFCallTypeError(kwargs) ==
    \/ PSFPassed \cap kwargs.keys # {}
    \/ (PSFPassed \cup kwargs.keys) \ PSFParams # {}

\* The state a call works on and what it hands back: the exception raised, the
\* _psfs attribute, the Sim's RNG, the objects constructed so far, the PSF
\* returned and the list of realizations it was summed over.
Ok(st) == st.exc = "none"
Raise(st, e) == [st EXCEPT !.exc = e]

\* RealPSF(fname) of real_psf.py: the PSF model read from a file.
RealPSF(fname) == [kind |-> "real", fname |-> fname]

\* p.getPSF(pos) for a member of _psfs.
MemberPSF(p, rng, x, y) ==
    IF p.kind = "ps" THEN GetPSF(p, rng, x, y).psf
    ELSE [kind |-> "RealPSF", fname |-> p.fname, x |-> x, y |-> y]

\* galsim.Sum([p.getPSF(PositionD(x=x, y=y)) for p in self._psfs])
SumPSF(list, rng, x, y) == [i \in 1..Len(list) |-> MemberPSF(list[i], rng, x, y)]

\* [PowerSpectrumPSF(rng=self.rng, im_width=self.dim, buff=75,
\*  scale=self.pixelscale, **kwargs) for _ in range(n)]: the list built onto acc.
RECURSIVE BuildPsPsfs(_, _, _, _, _)
BuildPsPsfs(s, kwargs, n, acc, rng) ==
    IF n <= 0 THEN [exc |-> "none", list |-> acc, rng |-> rng]
    ELSE IF PSFCallTypeError(kwargs) THEN [exc |-> "TypeError", list |-> acc, rng |-> rng]
    ELSE LET r == PSFInit(rng, s.dim, s.pixelscale,
                          IF "trunc" \in kwargs.keys THEN kwargs.trunc ELSE 10)
         IN  IF r.exc # "none" THEN [exc |-> r.exc, list |-> acc, rng |-> r.rng]
             ELSE BuildPsPsfs(s, kwargs, n - 1, Append(acc, r.obj), r.rng)

\* The sum over self._psfs that ends both stacking methods.
StackSum(st, x, y) ==
    [st EXCEPT !.psf = SumPSF(st.psfs.list, st.rng, x, y), !.used = st.psfs.list]

\* Sim._stack_ps_psfs(x=x, y=y, **kwargs)
StackPsPsfs(s, st, x, y, kwargs) ==
    IF ~st.psfs.set
    THEN LET b == BuildPsPsfs(s, kwargs, s.n_coadd_psf, <<>>, st.rng)
         IN  IF b.exc # "none" THEN Raise([st EXCEPT !.rng = b.rng], b.exc)
             ELSE StackSum([st EXCEPT !.psfs = [set |-> TRUE, list |-> b.list],
                                      !.rng = b.rng,
                                      !.nbuilt = st.nbuilt + Len(b.list)], x, y)
    ELSE StackSum(st, x, y)

\* self.rng.choice(filenames, size=n, replace=False): n of the names, none twice,
\* in the order the RNG gives; ValueError when there are fewer than n names.
RECURSIVE Choice(_, _, _, _)
Choice(rng, filenames, n, acc) ==
    IF n <= 0 THEN [exc |-> "none", fnames |-> acc, rng |-> rng]
    ELSE IF Len(filenames) = 0 THEN [exc |-> "ValueError", fnames |-> acc, rng |-> rng]
    ELSE LET r == RngNext(rng)
             k == (r % Len(filenames)) + 1
             rest == [i \in 1..(Len(filenames) - 1) |->
                        IF i < k THEN filenames[i] ELSE filenames[i + 1]]
         IN  Choice(r, rest, n - 1, Append(acc, filenames[k]))

\* The names _stack_real_psfs takes besides x and y, all required.
RealParams == {"filenames"}

\* Sim._stack_real_psfs(x=x, y=y, **kws) that builds its list on every call.
StackRealPsfsRebuild(s, st, x, y, kws) ==
    IF kws.keys # RealParams THEN Raise(st, "TypeError")
    ELSE LET c == Choice(st.rng, kws.filenames, s.n_coadd_psf, <<>>)
         IN  IF c.exc # "none" THEN Raise(st, c.exc)
             ELSE StackSum([st EXCEPT
                     !.psfs = [set |-> TRUE,
                               list |-> [i \in 1..Len(c.fnames) |-> RealPSF(c.fnames[i])]],
                     !.rng = c.rng,
                     !.nbuilt = st.nbuilt + Len(c.fnames)], x, y)

\* Sim._stack_real_psfs(x=x, y=y, **kws)
StackRealPsfs(s, st, x, y, kws) ==
    IF kws.keys # RealParams THEN Raise(st, "TypeError")
    ELSE IF ~st.psfs.set
    THEN LET c == Choice(st.rng, kws.filenames, s.n_coadd_psf, <<>>)
         IN  IF c.exc # "none" THEN Raise(st, c.exc)
             ELSE StackSum([st EXCEPT
                     !.psfs = [set |-> TRUE,
                               list |-> [i \in 1..Len(c.fnames) |-> RealPSF(c.fnames[i])]],
                     !.rng = c.rng,
                     !.nbuilt = st.nbuilt + Len(c.fnames)], x, y)
    ELSE StackSum(st, x, y)

\* kws = self.psf_kws or {}
KwsOrEmpty(psf_kws) == IF psf_kws.isNone THEN NoKws ELSE psf_kws.v

\* Sim._render_psf_image(x=x, y=y)
RenderPsfImage(s, st, x, y) ==
    IF s.psf_type = "gauss"
    THEN [st EXCEPT !.psf = <<[kind |-> "Gaussian", fwhm |-> 9000]>>, !.used = <<>>]
    ELSE IF s.psf_type = "ps" THEN StackPsPsfs(s, st, x, y, KwsOrEmpty(s.psf_kws))
    ELSE IF s.psf_type = "real_psf" THEN StackRealPsfs(s, st, x, y, KwsOrEmpty(s.psf_kws))
    ELSE Raise(st, "ValueError")

\* The doubled pixel coordinate of an object, from a uniform draw over the patch.
ObjectPos(s, r) == r % (2 * s.im_cen + 1)

\* Sim._get_band_objects(): the loop over the n objects still to make.
RECURSIVE GetBandObjects(_, _, _)
GetBandObjects(s, st, n) ==
    IF n <= 0 THEN st
    ELSE LET \* dx, dy = self._get_dxdy(): rng.uniform(size=2)
             r1 == RngNext(st.rng)
             r2 == RngNext(r1)
             \* _get_gal_ground_galsim_parametric draws the angle
             r3 == IF s.gal_type = "ground_galsim_parametric" THEN RngNext(r2) ELSE r2
         IN  IF s.gal_type \notin {"exp", "ground_galsim_parametric"}
             THEN Raise([st EXCEPT !.rng = r2], "ValueError")
             ELSE LET t == RenderPsfImage(s, [st EXCEPT !.rng = r3],
                                          ObjectPos(s, r1), ObjectPos(s, r2))
                  IN  IF Ok(t) THEN GetBandObjects(s, t, n - 1) ELSE t

\* Sim.get_psf_obs(x=x, y=y)
GetPsfObs(s, st, x, y) == RenderPsfImage(s, st, x, y)

\* Sim.get_mbobs(), homogenize_psf left at its default False.
GetMbobs(s, st) ==
    LET a == GetBandObjects(s, st, s.nobj)
        b == RenderPsfImage(s, a, s.im_cen, s.im_cen)
        \* the noise: two rng.normal(size=im.shape) draws
        c == [b EXCEPT !.rng = RngAfter(b.rng, 2 * s.dim * s.dim)]
    IN  IF ~Ok(a) THEN a
        ELSE IF ~Ok(b) THEN b
        ELSE GetPsfObs(s, c, s.im_cen, s.im_cen)

\* ------------------------------------------------------------------ state
VARIABLES
    cfg,        \* the arguments two standalone realizations are constructed with
    rng,        \* the state of each realization's RandomState
    psfobj,     \* each realization: NoObj, or the object __init__ built
    built,      \* each construction: "new", "ok" or the exception it raised
    lastq,      \* the last getPSF call: who, where, the profile returned
    firstq,     \* the first getPSF call made
    args,       \* the arguments of Sim(...)
    sim,        \* the Sim's attributes, set by Sim.__init__
    psfs,       \* the Sim's _psfs attribute: whether it is set, and the list
    simrng,     \* the state of the Sim's RandomState
    nbuilt,     \* how many PSF objects the Sim has constructed
    last        \* the last call made on the Sim and how it ended

vars == <<cfg, rng, psfobj, built, lastq, firstq, args, sim, psfs, simrng, nbuilt, last>>
psfvars == <<cfg, rng, psfobj, built, lastq, firstq>>
simvars == <<args, sim, psfs, simrng, nbuilt, last>>

Reals == {"A", "B"}
NoQuery == [who |-> "none"]
NoCall == [op |-> "none"]
NoArgs == [made |-> FALSE]

\* im_width values, the pixel scales -1, 0, 1/ScaleDen, 1 and 2, and trunc values.
Widths == (-1..MaxWidth) \cup {dim225}
Scales == {-ScaleDen, 0, 1, ScaleDen, 2 * ScaleDen}
Truncs == {0, 5, 10}

\* The doubled pixel coordinates queried on an image of width w: inside the
\* image, near an edge or central.
Pos(w) ==
    IF w < 1 THEN {0}
    ELSE {p \in (0..MaxOff) \cup {w - 1} \cup ((2 * (w - 1) - MaxOff)..(2 * (w - 1))) :
            0 <= p /\ p <= 2 * (w - 1)}

\* The positions queried: on the diagonal or on the central row.
QueryPos(w) == {q \in Pos(w) \X Pos(w) : q[2] = q[1] \/ q[2] = w - 1}

\* The Sim is not in use.
SimIdle ==
    /\ args = NoArgs
    /\ sim = NoArgs
    /\ psfs = [set |-> FALSE, list |-> <<>>]
    /\ simrng = 0
    /\ nbuilt = 0
    /\ last = NoCall

\* Two RandomStates in the same state, and the arguments both constructions get.
InitPSF ==
    /\ cfg \in [im_width : Widths, scale : Scales, trunc : Truncs, seed : 0..MaxSeed]
    /\ rng = [i \in Reals |-> cfg.seed]
    /\ psfobj = [i \in Reals |-> NoObj]
    /\ built = [i \in Reals |-> "new"]
    /\ lastq = NoQuery
    /\ firstq = NoQuery
    /\ SimIdle

\* PowerSpectrumPSF(rng, im_width, scale, trunc) for realization i.
Construct(i) ==
    /\ built[i] = "new"
    /\ LET r == PSFInit(rng[i], cfg.im_width, cfg.scale, cfg.trunc)
       IN  /\ built' = [built EXCEPT ![i] = IF r.exc = "none" THEN "ok" ELSE r.exc]
           /\ psfobj' = [psfobj EXCEPT ![i] = r.obj]
           /\ rng' = [rng EXCEPT ![i] = r.rng]
    /\ UNCHANGED <<cfg, lastq, firstq, simvars>>

\* realization i .getPSF(PositionD(x, y)).
Query(i) ==
    /\ built[i] = "ok"
    /\ \E pos \in QueryPos(cfg.im_width) :
         LET r == GetPSF(psfobj[i], rng[i], pos[1], pos[2])
             q == [who |-> i, x |-> pos[1], y |-> pos[2], psf |-> r.psf,
                   \* whether a query elsewhere was made since the first query
                   moved |-> /\ firstq # NoQuery
                             /\ \/ lastq.moved
                                \/ <<i, pos[1], pos[2]>> # <<firstq.who, firstq.x, firstq.y>>]
         IN  /\ lastq' = q
             /\ firstq' = IF firstq = NoQuery THEN q ELSE firstq
             /\ psfobj' = [psfobj EXCEPT ![i] = r.obj]
             /\ rng' = [rng EXCEPT ![i] = r.rng]
    /\ UNCHANGED <<cfg, built, simvars>>

NextPSF ==
    \/ \E i \in Reals : Construct(i)
    \/ \E i \in Reals : Query(i)

SpecPSF == InitPSF /\ [][NextPSF]_vars

\* --------------------------------------------------------- the Sim's calls
\* No standalone realization is in use.
PSFIdle ==
    /\ cfg = NoArgs
    /\ rng = [i \in Reals |-> 0]
    /\ psfobj = [i \in Reals |-> NoObj]
    /\ built = [i \in Reals |-> "new"]
    /\ lastq = NoQuery
    /\ firstq = NoQuery

\* The positions a Sim is asked for a PSF at: a corner and the image center.
SimPos(s) == {<<0, 0>>, <<s.im_cen, s.im_cen>>}

\* The keyword arguments tried, as psf_kws and in direct calls.
KwChoices == {NoKws, TruncKws(5), FileKws(MaxFiles)}

\* The arguments of Sim(...); nobj stands for an ngal that gives this many
\* objects, and the scale is one arcsec per pixel.
SimArgs ==
    [made : {FALSE},
     psf_type : {"gauss", "ps", "real_psf", "bogus"},
     gal_type : {"exp", "ground_galsim_parametric", "bogus"},
     n_coadd : 1..MaxCoadd,
     n_coadd_psf : {None} \cup {Some(k) : k \in 0..MaxCoadd},
     psf_kws : {None} \cup {Some(k) : k \in KwChoices \ {NoKws}},
     nobj : 0..MaxObj,
     dim : {SimDim},
     scale : {ScaleDen}]

InitSim ==
    /\ args \in SimArgs
    /\ sim = NoArgs
    /\ psfs = [set |-> FALSE, list |-> <<>>]
    /\ simrng = 0
    /\ nbuilt = 0
    /\ last = NoCall
    /\ PSFIdle

\* Sim(rng=..., gal_type=..., psf_type=..., scale=..., ...)
Sim__init__ ==
    /\ ~sim.made
    /\ sim' = SimObject(args)
    \* self._galsim_rng = galsim.BaseDeviate(seed=self.rng.randint(...))
    /\ simrng' = RngNext(simrng)
    /\ UNCHANGED <<args, psfs, nbuilt, last, psfvars>>

\* The state a call starts from.
St0 == [exc |-> "none", psfs |-> psfs, rng |-> simrng, nbuilt |-> nbuilt,
        psf |-> <<>>, used |-> <<>>]

\* A call returns or raises: what it did to the Sim stays, and the call is noted.
Commit(op, x, y, r) ==
    /\ psfs' = r.psfs
    /\ simrng' = r.rng
    /\ nbuilt' = r.nbuilt
    /\ last' = [op |-> op, exc |-> r.exc, x |-> x, y |-> y,
                was_set |-> psfs.set,
                psf |-> IF Ok(r) THEN r.psf ELSE <<>>,
                used |-> IF Ok(r) THEN r.used ELSE <<>>]
    /\ UNCHANGED <<args, sim, psfvars>>

get_mbobs ==
    /\ sim.made
    /\ Commit("get_mbobs", sim.im_cen, sim.im_cen, GetMbobs(sim, St0))

get_psf_obs ==
    /\ sim.made
    /\ \E pos \in SimPos(sim) :
         Commit("get_psf_obs", pos[1], pos[2], GetPsfObs(sim, St0, pos[1], pos[2]))

render_psf_image ==
    /\ sim.made
    /\ \E pos \in SimPos(sim) :
         Commit("_render_psf_image", pos[1], pos[2],
                RenderPsfImage(sim, St0, pos[1], pos[2]))

stack_ps_psfs ==
    /\ sim.made
    /\ \E pos \in SimPos(sim), kwargs \in KwChoices :
         Commit("_stack_ps_psfs", pos[1], pos[2],
                StackPsPsfs(sim, St0, pos[1], pos[2], kwargs))

stack_real_psfs ==
    /\ sim.made
    /\ \E pos \in SimPos(sim), kws \in KwChoices :
         Commit("_stack_real_psfs", pos[1], pos[2],
                StackRealPsfs(sim, St0, pos[1], pos[2], kws))

NextSim ==
    \/ Sim__init__
    \/ get_mbobs
    \/ get_psf_obs
    \/ render_psf_image
    \/ stack_ps_psfs
    \/ stack_real_psfs

SpecSim == InitSim /\ [][NextSim]_vars

\* ------------------------------------------------- properties: realization
Queried == lastq # NoQuery
QObj == psfobj[lastq.who]
InImage == cfg.im_width >= 1 /\ cfg.scale > 0

\* C3: for every position the Sim hands to getPSF (0-indexed, image center
\* im_cen), the FWHM is c0 + c1*x' + c2*y' + c3*x'^2 + c4*x'*y' + c5*y'^2 with
\* x' = (x - im_cen) * 2/(im_width*scale), y' likewise; at the image center it
\* is c0.  The claim as stated.
C3_FwhmAboutCenter ==
    (Queried /\ InImage) =>
        LET D == cfg.im_width * cfg.scale
            xc == (lastq.x - (cfg.im_width - 1)) * ScaleDen
            yc == (lastq.y - (cfg.im_width - 1)) * ScaleDen
        IN  /\ lastq.psf.fwhm_central = QObj.fwhm_central
            /\ lastq.psf.fwhm_den = D * D
            /\ lastq.psf.fwhm_num =
                  (xc * QObj.fwhm_x + yc * QObj.fwhm_y) * D
                  + xc * xc * QObj.fwhm_xx
                  + xc * yc * QObj.fwhm_xy
                  + yc * yc * QObj.fwhm_yy

\* C4: for im_width >= 1, scale > 0 and a position inside the image, the
\* rescaled coordinates fed to the FWHM polynomial satisfy
\* |x'| <= 1 + 2/im_width and |y'| <= 1 + 2/im_width.  The claim as stated.
C4_RescaledInUnitRange ==
    (Queried /\ InImage) =>
        /\ Abs(AtmScaled(QObj, lastq.x)) * cfg.im_width
              <= (cfg.im_width + 2) * QObj.x_scale_den
        /\ Abs(AtmScaled(QObj, lastq.y)) * cfg.im_width
              <= (cfg.im_width + 2) * QObj.x_scale_den

\* C10: for im_width >= 1, scale > 0 and a position inside the image, the
\* coordinates looked up in the field lie within the grid's half-extent
\* ngrid*grid_spacing/2 of the grid center.  The claim as stated.
C10_LookupInsideGrid ==
    (Queried /\ InImage) =>
        /\ Abs(lastq.psf.lens[3]) * ScaleDen <= lastq.psf.lens[2]
        /\ Abs(lastq.psf.lens[4]) * ScaleDen <= lastq.psf.lens[2]

\* C5: a construction with degenerate grid parameters (im_width <= 0 or
\* scale <= 0) fails with a ConfigurationError, and builds no object.  The
\* claim as stated.
C5_DegenerateIsConfigurationError ==
    \A i \in Reals :
        (built[i] # "new" /\ cfg.trunc # 0 /\ (cfg.im_width <= 0 \/ cfg.scale <= 0)) =>
            built[i] = "ConfigurationError" /\ psfobj[i] = NoObj

C9_GetPSFPure ==
    /\ [][built' = built => (psfobj' = psfobj /\ rng' = rng)]_vars
    /\ [](( /\ Queried
            /\ lastq.who = firstq.who
            /\ lastq.x = firstq.x
            /\ lastq.y = firstq.y) => lastq.psf = firstq.psf)

\* A query back at the first position, after a query elsewhere.
C9_Witness ==
    /\ Queried
    /\ lastq.moved
    /\ <<lastq.who, lastq.x, lastq.y>> = <<firstq.who, firstq.x, firstq.y>>
    /\ lastq.psf = firstq.psf

\* --------------------------------------------------------- properties: Sim
ValidPsfTypes == {"gauss", "ps", "real_psf"}
ValidGalTypes == {"exp", "ground_galsim_parametric"}
Called == last # NoCall
\* The last call was a request for a stacked PSF.
Stacked ==
    /\ Called
    /\ \/ last.op \in {"_stack_ps_psfs", "_stack_real_psfs"}
       \/ /\ last.op \in {"_render_psf_image", "get_psf_obs"}
          /\ sim.psf_type \in {"ps", "real_psf"}
       \/ /\ last.op = "get_mbobs"
          /\ sim.psf_type \in {"ps", "real_psf"}
          /\ sim.gal_type \in ValidGalTypes

\* C1: on a Sim of psf_type 'ps' whose _psfs is not yet set, the first
\* stacked-PSF request (through _render_psf_image or get_psf_obs, psf_kws None
\* or a trunc) completes without error, constructs exactly n_coadd_psf
\* PowerSpectrumPSF realizations, stores them as _psfs and returns the sum of
\* their profiles at (x, y).  The claim as stated.
C1_FirstRequestBuildsStack ==
    ( /\ Called
      /\ last.op \in {"_render_psf_image", "get_psf_obs"}
      /\ sim.psf_type = "ps"
      /\ sim.psf_kws.isNone \/ sim.psf_kws.v.keys = {"trunc"}
      /\ ~last.was_set ) =>
        /\ last.exc = "none"
        /\ psfs.set
        /\ Len(psfs.list) = sim.n_coadd_psf
        /\ nbuilt = sim.n_coadd_psf
        /\ \A i \in 1..Len(psfs.list) : psfs.list[i].kind = "ps"
        /\ last.psf = SumPSF(psfs.list, simrng, last.x, last.y)

\* C2: once _psfs is set, no call of get_mbobs, get_psf_obs, _render_psf_image,
\* _stack_ps_psfs or _stack_real_psfs, at any position, changes it or constructs
\* a further realization, and every stacked request that returns has summed
\* over exactly that list, in its order.
C2_PsfsMemoized ==
    [][psfs.set =>
          /\ psfs' = psfs
          /\ nbuilt' = nbuilt
          /\ (Stacked' /\ last'.exc = "none") =>
                /\ last'.used = psfs.list
                /\ last'.psf = SumPSF(psfs.list, simrng', last'.x, last'.y)]_vars

\* A request served from a list of two realizations that an earlier request built.
C2_Witness ==
    /\ Stacked
    /\ last.was_set
    /\ last.exc = "none"
    /\ psfs.set
    /\ Len(psfs.list) >= 2
    /\ last.used = psfs.list

\* C6: get_mbobs raises ValueError whenever psf_type or gal_type is not a valid
\* kind, whatever nobj is; get_psf_obs and _render_psf_image raise ValueError
\* for every unrecognized psf_type and then create no _psfs.  The claim as stated.
C6_InvalidKindsRaiseValueError ==
    /\ ( /\ Called
         /\ last.op = "get_mbobs"
         /\ sim.psf_type \notin ValidPsfTypes \/ sim.gal_type \notin ValidGalTypes )
          => last.exc = "ValueError"
    /\ ( /\ Called
         /\ last.op \in {"get_psf_obs", "_render_psf_image"}
         /\ sim.psf_type \notin ValidPsfTypes )
          => (last.exc = "ValueError" /\ psfs.set = last.was_set)

\* C8: after Sim.__init__, self.n_coadd_psf is the n_coadd_psf argument whenever
\* that is not None, and n_coadd when it is None.  The claim as stated.
C8_NCoaddPsfIsArgument ==
    sim.made =>
        /\ ~args.n_coadd_psf.isNone => sim.n_coadd_psf = args.n_coadd_psf.v
        /\ args.n_coadd_psf.isNone => sim.n_coadd_psf = args.n_coadd

====
